---- MODULE Spec2Model ----
(***************************************************************************)
(* Model of TokenPF2e (src/module/canvas/token.ts): flanking eligibility   *)
(* and geometry, distance measurement, light substitution in updateSource  *)
(* and the draw lock shared by draw() and redraw().                        *)
(***************************************************************************)
EXTENDS Integers, Sequences, FiniteSets, TLC

VARIABLES
    canvas,      \* canvas.dimensions / canvas.grid as seen by distanceTo
    tokens,      \* token id -> placeable fields (x, y, w, h, actor)
    placeables,  \* canvas.tokens.placeables (set of token ids)
    ret,         \* the last call of canFlank / isFlanking / distanceTo and its result
    sight,       \* canvas.sight.hasLowLightVision / hasDarkvision
    light,       \* this.data.light of the token under updateSource, with its actor type
    upd,         \* the last updateSource call: light before, seen by super, after
    drawLock,    \* TokenPF2e.drawLock: a promise id, or NoPromise
    settled,     \* promises that have been resolved
    hostDraws,   \* promises of super.draw() calls still in progress
    frames,      \* suspended async calls, oldest first: kind, promise awaited, own promise
    microtasks,  \* FIFO queue of continuations ready to run
    nextPromise, \* allocator of promise ids
    redrawCalls, \* number of redraw() calls made so far
    probe        \* what the last redraw continuation saw when it inspected the icon

flankVars == <<canvas, tokens, placeables, ret>>
lightVars == <<sight, light, upd>>
drawVars  == <<drawLock, settled, hostDraws, frames, microtasks, nextPromise, redrawCalls, probe>>
vars == <<canvas, tokens, placeables, ret, sight, light, upd,
          drawLock, settled, hostDraws, frames, microtasks, nextPromise, redrawCalls, probe>>

(***************************************************************************)
(* Bounds of the explored scenes.                                          *)
(***************************************************************************)
\* token origins lie on a lattice of half grid cells, 0..MaxHalfCell per axis
MaxHalfCell == 4
\* footprints are 1..MaxFootprint cells wide and high
MaxFootprint == 2

\* cap on the radii of light a token emits (negative radii are darkness)
MaxLight == 2
\* cap on the number of redraw() calls
MaxRedraws == 3

NoActor == "none"

\* drawLock before the first draw(): undefined
NoPromise == 0

(***************************************************************************)
(* Numbers.  A distance is NaN or the non-negative real sqrt(n2 / d2).     *)
(***************************************************************************)
NaN == [nan |-> TRUE, n2 |-> 0, d2 |-> 1]

Real(n2, d2) == [nan |-> FALSE, n2 |-> n2, d2 |-> d2]

\* JavaScript `reach >= d` for an integer reach >= 0: false when d is NaN
GreaterOrEqual(reach, d) == ~d.nan /\ reach * reach * d.d2 >= d.n2

\* both NaN, or the same real
SameNumber(a, b) ==
    \/ a.nan /\ b.nan
    \/ ~a.nan /\ ~b.nan /\ a.n2 * b.d2 = b.n2 * a.d2

Max(a, b) == IF a >= b THEN a ELSE b

Max3(a, b, c) == Max(a, Max(b, c))

(***************************************************************************)
(* Placeable geometry supplied by the host canvas.                         *)
(***************************************************************************)
Point(x, y) == [x |-> x, y |-> y]

\* PIXI.Rectangle(x, y, width, height) with its left/right/top/bottom getters
Rectangle(x, y, width, height) ==
    [left |-> x, right |-> x + width, top |-> y, bottom |-> y + height]

\* Token#position: the origin (x, y) of the placeable, the corner tokenRect starts from
position(t) == Point(tokens[t].x, tokens[t].y)

\* Token#center: the middle of the w x h footprint
center(t) == Point(tokens[t].x + tokens[t].w \div 2, tokens[t].y + tokens[t].h \div 2)

\* Token#bounds: the rectangle the footprint covers
bounds(t) == Rectangle(tokens[t].x, tokens[t].y, tokens[t].w, tokens[t].h)

(***************************************************************************)
(* foundry.utils geometry helpers used by isFlanking.                      *)
(***************************************************************************)
orient2dFast(a, b, c) == (a.y - c.y) * (b.x - c.x) - (a.x - c.x) * (b.y - c.y)

lineSegmentIntersects(a, b, c, d) ==
    LET xa == orient2dFast(a, b, c)
        xb == orient2dFast(a, b, d)
    IN  IF xa = 0 /\ xb = 0 THEN FALSE
        ELSE /\ xa * xb <= 0
             /\ orient2dFast(c, d, a) * orient2dFast(c, d, b) <= 0

\* number of roots t in [0, 1] of |p0 + t (p1 - p0) - center|^2 = radius^2,
\* a double root counted once; t1 = (-b - sqrt disc2) / 2a, t2 = (-b + sqrt disc2) / 2a.
\* The square root is compared through squares, so the arithmetic stays in the
\* integers; the host's tolerance of 1e-8 on t is below anything integer
\* coordinates can produce.  With p0 = p1 (a = 0) the roots are NaN and none hits.
quadraticIntersection(p0, p1, c0, radius) ==
    LET dx == p1.x - p0.x
        dy == p1.y - p0.y
        a  == dx * dx + dy * dy
        b  == 2 * dx * (p0.x - c0.x) + 2 * dy * (p0.y - c0.y)
        c  == (p0.x - c0.x) * (p0.x - c0.x) + (p0.y - c0.y) * (p0.y - c0.y) - radius * radius
        disc2 == b * b - 4 * a * c
        \* 0 <= t1 <= 1  <=>  sqrt disc2 <= -b  /\  sqrt disc2 >= -b - 2a
        t1Hits == /\ -b >= 0 /\ disc2 <= b * b
                  /\ (-b - 2 * a <= 0 \/ disc2 >= (b + 2 * a) * (b + 2 * a))
        \* 0 <= t2 <= 1  <=>  sqrt disc2 >= b  /\  sqrt disc2 <= 2a + b
        t2Hits == /\ (b <= 0 \/ disc2 >= b * b)
                  /\ 2 * a + b >= 0 /\ disc2 <= (2 * a + b) * (2 * a + b)
    IN  IF a = 0 \/ disc2 < 0 THEN 0
        ELSE IF disc2 = 0 THEN (IF t1Hits THEN 1 ELSE 0)
        ELSE (IF t1Hits THEN 1 ELSE 0) + (IF t2Hits THEN 1 ELSE 0)

\* lineCircleIntersection(a, b, center, radius).intersections.length
lineCircleIntersection(a, b, c0, radius) ==
    LET r2  == radius * radius
        ar2 == (a.x - c0.x) * (a.x - c0.x) + (a.y - c0.y) * (a.y - c0.y)
        br2 == (b.x - c0.x) * (b.x - c0.x) + (b.y - c0.y) * (b.y - c0.y)
        contained == ar2 < r2 /\ br2 < r2
    IN  IF contained THEN 0 ELSE quadraticIntersection(a, b, c0, radius)

(***************************************************************************)
(* Distance measurement.                                                   *)
(***************************************************************************)
\* canvas.grid.measureDistance on a grid without cells (gridless, the grid type
\* other than square that the scenes use): the length of the ray between the
\* two points, in grid units
measureDistance(p, q) ==
    LET dx == q.x - p.x
        dy == q.y - p.y
    IN  Real((dx * dx + dy * dy) * canvas.distance * canvas.distance,
             canvas.size * canvas.size)

\* MeasuredTemplatePF2e.measureDistanceRect: zero when the rectangles overlap or
\* touch, otherwise the distance between their nearest edges, in grid units
measureDistanceRect(r0, r1, reach) ==
    LET dx == Max3(r0.left - r1.right, r1.left - r0.right, 0)
        dy == Max3(r0.top - r1.bottom, r1.top - r0.bottom, 0)
    IN  Real((dx * dx + dy * dy) * canvas.distance * canvas.distance,
             canvas.size * canvas.size)

tokenRect(t) ==
    LET gridSize == canvas.size
    IN  Rectangle(tokens[t].x + gridSize \div 2, tokens[t].y + gridSize \div 2,
                  tokens[t].w - gridSize, tokens[t].h - gridSize)

\* distanceTo without the guard on canvas.dimensions
distanceTo_noDimensionsGuard(this, target, reach) ==
    IF canvas.gridType # "SQUARE"
    THEN measureDistance(position(this), position(target))
    ELSE measureDistanceRect(tokenRect(this), tokenRect(target), reach)

\* distanceTo without the branch for grids that are not square
distanceTo_squareOnly(this, target, reach) ==
    IF ~canvas.dimensions THEN NaN
    ELSE measureDistanceRect(tokenRect(this), tokenRect(target), reach)

\* distanceTo measuring from this token's center to the target's position
distanceTo_fromCenter(this, target, reach) ==
    IF ~canvas.dimensions THEN NaN
    ELSE IF canvas.gridType # "SQUARE"
         THEN measureDistance(center(this), position(target))
         ELSE measureDistanceRect(tokenRect(this), tokenRect(target), reach)

distanceTo(this, target, reach) ==
    IF ~canvas.dimensions THEN NaN
    ELSE IF canvas.gridType # "SQUARE"
         THEN measureDistance(position(this), position(target))
         ELSE measureDistanceRect(tokenRect(this), tokenRect(target), reach)

(***************************************************************************)
(* Flanking.                                                               *)
(***************************************************************************)
CreatureTypes == {"character", "npc", "familiar"}

\* `t.actor.hasPlayerOwner ?? false`
hasPlayerOwner(t) ==
    IF tokens[t].actor.hasPlayerOwner = "absent" THEN FALSE
    ELSE tokens[t].actor.hasPlayerOwner = "true"

\* allies only when both are player-owned: the "neither is" half left out
areAlliedTokens_bothOwnedOnly(this, flankee) ==
    \A t \in {this, flankee} : hasPlayerOwner(t)

areAlliedTokens(this, flankee) ==
    \/ \A t \in {this, flankee} : hasPlayerOwner(t)
    \/ ~(\E t \in {this, flankee} : hasPlayerOwner(t))

\* canFlank with `reach > distance` in place of `reach >= distance`
canFlank_strictReach(this, flankee) ==
    IF this = flankee THEN FALSE
    ELSE IF ~(tokens[this].actor.type # NoActor
              /\ tokens[this].actor.type \in {"character", "npc"}) THEN FALSE
    ELSE IF ~(tokens[flankee].actor.type \in CreatureTypes) THEN FALSE
    ELSE IF areAlliedTokens(this, flankee) THEN FALSE
    ELSE LET reach == tokens[this].actor.reach
             d == distanceTo(this, flankee, reach)
         IN  /\ tokens[this].actor.canAttack
             /\ GreaterOrEqual(reach, d)
             /\ reach * reach * d.d2 # d.n2

canFlank(this, flankee) ==
    IF this = flankee THEN FALSE
    ELSE IF ~(tokens[this].actor.type # NoActor
              /\ tokens[this].actor.type \in {"character", "npc"}) THEN FALSE
    ELSE IF ~(tokens[flankee].actor.type \in CreatureTypes) THEN FALSE
    ELSE IF areAlliedTokens(this, flankee) THEN FALSE
    ELSE LET reach == tokens[this].actor.reach
         IN  /\ tokens[this].actor.canAttack
             /\ GreaterOrEqual(reach, distanceTo(this, flankee, reach))

areOnOppositeCorners(flankerA, flankerB, flankee) ==
    lineCircleIntersection(center(flankerA), center(flankerB), center(flankee), 1) > 0

\* areOnOppositeSides pairing adjacent edges (left with top, right with bottom)
areOnOppositeSides_adjacentEdges(flankerA, flankerB, flankee) ==
    LET centerA == center(flankerA)
        centerB == center(flankerB)
        b == bounds(flankee)
    IN  \/ /\ lineSegmentIntersects(centerA, centerB, Point(b.left, b.top), Point(b.left, b.bottom))
           /\ lineSegmentIntersects(centerA, centerB, Point(b.left, b.top), Point(b.right, b.top))
        \/ /\ lineSegmentIntersects(centerA, centerB, Point(b.right, b.top), Point(b.right, b.bottom))
           /\ lineSegmentIntersects(centerA, centerB, Point(b.left, b.bottom), Point(b.right, b.bottom))

areOnOppositeSides(flankerA, flankerB, flankee) ==
    LET centerA == center(flankerA)
        centerB == center(flankerB)
        b == bounds(flankee)
        leftSide(i)   == IF i = 1 THEN Point(b.left, b.top) ELSE Point(b.left, b.bottom)
        rightSide(i)  == IF i = 1 THEN Point(b.right, b.top) ELSE Point(b.right, b.bottom)
        topSide(i)    == IF i = 1 THEN Point(b.left, b.top) ELSE Point(b.right, b.top)
        bottomSide(i) == IF i = 1 THEN Point(b.left, b.bottom) ELSE Point(b.right, b.bottom)
    IN  \/ /\ lineSegmentIntersects(centerA, centerB, leftSide(1), leftSide(2))
           /\ lineSegmentIntersects(centerA, centerB, rightSide(1), rightSide(2))
        \/ /\ lineSegmentIntersects(centerA, centerB, topSide(1), topSide(2))
           /\ lineSegmentIntersects(centerA, centerB, bottomSide(1), bottomSide(2))

isAFlankingArrangement(flankerA, flankerB, flankee) ==
    \/ areOnOppositeCorners(flankerA, flankerB, flankee)
    \/ areOnOppositeSides(flankerA, flankerB, flankee)

\* isFlanking accepting a buddy that cannot itself flank the flankee
isFlanking_anyBuddy(this, flankee) ==
    IF ~canFlank(this, flankee) THEN FALSE
    ELSE \E t \in placeables :
            /\ t # this
            /\ isAFlankingArrangement(this, t, flankee)

Rank(t) == IF t = "t1" THEN 1 ELSE IF t = "t2" THEN 2 ELSE 3

\* isFlanking scanning only the placeables after this token
isFlanking_laterBuddiesOnly(this, flankee) ==
    IF ~canFlank(this, flankee) THEN FALSE
    ELSE \E t \in placeables :
            /\ Rank(t) > Rank(this)
            /\ canFlank(t, flankee)
            /\ isAFlankingArrangement(this, t, flankee)

isFlanking(this, flankee) ==
    IF ~canFlank(this, flankee) THEN FALSE
    ELSE \E t \in placeables :
            /\ t # this
            /\ canFlank(t, flankee)
            /\ isAFlankingArrangement(this, t, flankee)

(***************************************************************************)
(* Scenes: the canvases, actors and token placements explored.             *)
(***************************************************************************)
GridSizes == {20}

GridDistances == {5}

Canvases ==
    {[dimensions |-> FALSE, gridType |-> "SQUARE", size |-> s, distance |-> d] :
        s \in GridSizes, d \in GridDistances}
    \cup [dimensions : {TRUE}, gridType : {"SQUARE", "GRIDLESS"},
          size : GridSizes, distance : GridDistances]

ReadyCanvases == {c \in Canvases : c.dimensions}

Reaches == {5, 10}

MissingActor == [type |-> NoActor, hasPlayerOwner |-> "absent", canAttack |-> FALSE, reach |-> 5]

\* actor types, ownership and attack capability in every combination
AllActors ==
    {MissingActor}
    \cup [type : {"character", "npc", "familiar", "loot"}, hasPlayerOwner : {"true", "false"},
          canAttack : {TRUE}, reach : Reaches]
    \cup [type : {"character", "npc", "familiar", "loot"}, hasPlayerOwner : {"true", "false"},
          canAttack : {FALSE}, reach : {5}]
    \cup [type : {"character", "npc"}, hasPlayerOwner : {"absent"},
          canAttack : {TRUE}, reach : {5}]

\* the combatants of an encounter: player characters and unowned NPCs
Combatants ==
    { [type |-> "character", hasPlayerOwner |-> "true", canAttack |-> TRUE, reach |-> 5],
      [type |-> "npc", hasPlayerOwner |-> "false", canAttack |-> TRUE, reach |-> 10] }

Lattice == 0..MaxHalfCell

Footprints == 1..MaxFootprint

\* a token of k x k cells with its origin at lattice point (i, j)
Placed(i, j, k, actor, c) ==
    [x |-> i * (c.size \div 2), y |-> j * (c.size \div 2),
     w |-> k * c.size, h |-> k * c.size, actor |-> actor]

NoCall == [op |-> "none", this |-> "t1", target |-> "t1", reach |-> 0, bool |-> FALSE, num |-> NaN]

Dark == [dim |-> 0, bright |-> 0]

InitLight ==
    /\ sight = [hasLowLightVision |-> FALSE, hasDarkvision |-> FALSE]
    /\ light = [type |-> "character", data |-> Dark]
    /\ upd = [called |-> FALSE, type |-> "character", vision |-> FALSE,
              before |-> Dark, inner |-> Dark, after |-> Dark]

InitDraw ==
    /\ drawLock = NoPromise
    /\ settled = {}
    /\ hostDraws = {}
    /\ frames = <<>>
    /\ microtasks = <<>>
    /\ nextPromise = 1
    /\ redrawCalls = 0
    /\ probe = [seen |-> FALSE, drawing |-> FALSE]

\* two tokens, any actors: t1 at the origin, t2 along the top or bottom row of the lattice
InitPair ==
    /\ canvas \in Canvases
    /\ \E a1 \in AllActors, a2 \in AllActors, k2 \in Footprints,
          i \in Lattice, j \in {0, MaxHalfCell} :
            tokens = [t \in {"t1", "t2"} |->
                        IF t = "t1" THEN Placed(0, 0, 1, a1, canvas)
                        ELSE Placed(i, j, k2, a2, canvas)]
    /\ placeables = {"t1", "t2"}
    /\ ret = NoCall
    /\ InitLight
    /\ InitDraw

\* two tokens of any footprint anywhere on the lattice
InitDistance ==
    /\ canvas \in Canvases
    /\ \E a1 \in Combatants, k1 \in Footprints, k2 \in Footprints,
          i1 \in Lattice, j1 \in Lattice, i2 \in Lattice, j2 \in Lattice :
            tokens = [t \in {"t1", "t2"} |->
                        IF t = "t1" THEN Placed(i1, j1, k1, a1, canvas)
                        ELSE Placed(i2, j2, k2, a1, canvas)]
    /\ placeables = {"t1", "t2"}
    /\ ret = NoCall
    /\ InitLight
    /\ InitDraw

\* three combatants: t3 in the middle of the lattice, t1 and t2 anywhere on it
InitScene ==
    /\ canvas \in ReadyCanvases
    /\ \E a1 \in Combatants, a2 \in Combatants, a3 \in Combatants, k3 \in Footprints,
          i1 \in Lattice, j1 \in Lattice, i2 \in Lattice, j2 \in Lattice :
            tokens = [t \in {"t1", "t2", "t3"} |->
                        IF t = "t1" THEN Placed(i1, j1, 1, a1, canvas)
                        ELSE IF t = "t2" THEN Placed(i2, j2, 1, a2, canvas)
                        ELSE Placed(2, 2, k3, a3, canvas)]
    /\ placeables \in {{"t1", "t2", "t3"}, {"t2", "t3"}, {"t1"}, {}}
    /\ ret = NoCall
    /\ InitLight
    /\ InitDraw

(***************************************************************************)
(* A query is called once on the scene drawn by Init; the queries leave    *)
(* the scene as it is, so one call per behaviour covers every call.        *)
(***************************************************************************)
CallCanFlank ==
    /\ ret.op = "none"
    /\ \E a \in DOMAIN tokens, f \in DOMAIN tokens :
          ret' = [NoCall EXCEPT !.op = "canFlank", !.this = a, !.target = f,
                                !.bool = canFlank(a, f)]
    /\ UNCHANGED <<canvas, tokens, placeables, lightVars, drawVars>>

CallIsFlanking ==
    /\ ret.op = "none"
    /\ \E a \in DOMAIN tokens, f \in DOMAIN tokens :
          ret' = [NoCall EXCEPT !.op = "isFlanking", !.this = a, !.target = f,
                                !.bool = isFlanking(a, f)]
    /\ UNCHANGED <<canvas, tokens, placeables, lightVars, drawVars>>

CallDistanceTo ==
    /\ ret.op = "none"
    /\ \E a \in DOMAIN tokens, b \in DOMAIN tokens, reach \in Reaches :
          ret' = [NoCall EXCEPT !.op = "distanceTo", !.this = a, !.target = b,
                                !.reach = reach, !.num = distanceTo(a, b, reach)]
    /\ UNCHANGED <<canvas, tokens, placeables, lightVars, drawVars>>

NextPair == CallCanFlank \/ CallIsFlanking \/ CallDistanceTo

SpecPair == InitPair /\ [][NextPair]_vars

NextDistance == CallDistanceTo

SpecDistance == InitDistance /\ [][NextDistance]_vars

NextScene == CallIsFlanking

SpecScene == InitScene /\ [][NextScene]_vars

(***************************************************************************)
(* Properties of canFlank, isFlanking and distanceTo.                      *)
(***************************************************************************)
A == ret.this

F == ret.target

Eligible(a, f) ==
    /\ a # f
    /\ tokens[a].actor.type \in {"character", "npc"}
    /\ tokens[f].actor.type \in CreatureTypes
    /\ tokens[a].actor.canAttack

InReach(a, f) ==
    GreaterOrEqual(tokens[a].actor.reach, distanceTo(a, f, tokens[a].actor.reach))

\* C1: allied exclusion. When the actors of A and B carry the same player-owner
\* flag (both true, or both false or absent), A.canFlank(B) returns false.
C1_AlliedExclusion ==
    (/\ ret.op = "canFlank"
     /\ tokens[A].actor.type # NoActor
     /\ tokens[F].actor.type # NoActor
     /\ hasPlayerOwner(A) = hasPlayerOwner(F))
    => ret.bool = FALSE

\* C1 case: two unowned tokens, otherwise eligible and within reach
C1_Witness ==
    /\ ret.op = "canFlank"
    /\ canvas.dimensions
    /\ Eligible(A, F)
    /\ InReach(A, F)
    /\ tokens[A].actor.hasPlayerOwner = "false"
    /\ tokens[F].actor.hasPlayerOwner = "absent"
    /\ ret.bool = FALSE

\* C2: A.canFlank(F) is true exactly when A and F differ, A's actor is a character
\* or npc, F's actor is a creature, exactly one of them has a player owner, A's
\* actor can attack and its reach is at least A.distanceTo(F, {reach}).
C2_CanFlankExactly ==
    ret.op = "canFlank" =>
        (ret.bool <=>
            /\ A # F
            /\ tokens[A].actor.type \in {"character", "npc"}
            /\ tokens[F].actor.type \in CreatureTypes
            /\ hasPlayerOwner(A) # hasPlayerOwner(F)
            /\ tokens[A].actor.canAttack
            /\ GreaterOrEqual(tokens[A].actor.reach,
                              distanceTo(A, F, tokens[A].actor.reach)))

\* C2 case: a flanker whose reach equals the measured distance can flank
C2_Witness ==
    /\ ret.op = "canFlank"
    /\ ret.bool = TRUE
    /\ SameNumber(distanceTo(A, F, tokens[A].actor.reach),
                  Real(tokens[A].actor.reach * tokens[A].actor.reach, 1))

\* C3: A.isFlanking(F) is true exactly when A.canFlank(F) and some placed token B
\* other than A can flank F and stands in the opposite-corners or the
\* opposite-sides arrangement with A around F.
C3_IsFlankingExactly ==
    ret.op = "isFlanking" =>
        (ret.bool <=>
            /\ canFlank(A, F)
            /\ \E B \in placeables :
                  /\ B # A
                  /\ canFlank(B, F)
                  /\ (areOnOppositeCorners(A, B, F) \/ areOnOppositeSides(A, B, F)))

\* C3 case: A can flank and is well arranged with a token that cannot flank F,
\* and no other buddy exists, so isFlanking is false
C3_Witness ==
    /\ ret.op = "isFlanking"
    /\ ret.bool = FALSE
    /\ canFlank(A, F)
    /\ \E B \in placeables :
          B # A /\ B # F /\ ~canFlank(B, F) /\ isAFlankingArrangement(A, B, F)

\* C4: without canvas.dimensions distanceTo returns NaN and canFlank and
\* isFlanking return false.
C4_NoGridContext ==
    ~canvas.dimensions =>
        /\ ret.op = "distanceTo" => ret.num.nan
        /\ ret.op \in {"canFlank", "isFlanking"} => ret.bool = FALSE

\* C4 case: a flanker that passes every other test of canFlank, with no grid
C4_Witness ==
    /\ ~canvas.dimensions
    /\ ret.op = "canFlank"
    /\ Eligible(A, F)
    /\ hasPlayerOwner(A) # hasPlayerOwner(F)
    /\ ret.bool = FALSE

C6_Symmetric ==
    ret.op = "distanceTo" => SameNumber(ret.num, distanceTo(F, A, ret.reach))

\* C6 case: two tokens of different footprints a positive distance apart on a square grid
C6_Witness ==
    /\ ret.op = "distanceTo"
    /\ canvas.dimensions
    /\ canvas.gridType = "SQUARE"
    /\ A # F
    /\ tokens[A].w # tokens[F].w
    /\ ret.num.n2 > 0

LeftAndRight(a, b, f) ==
    /\ center(a).x < bounds(f).left
    /\ center(b).x > bounds(f).right
    /\ center(a).y >= bounds(f).top /\ center(a).y <= bounds(f).bottom
    /\ center(b).y >= bounds(f).top /\ center(b).y <= bounds(f).bottom

AboveAndBelow(a, b, f) ==
    /\ center(a).y < bounds(f).top
    /\ center(b).y > bounds(f).bottom
    /\ center(a).x >= bounds(f).left /\ center(a).x <= bounds(f).right
    /\ center(b).x >= bounds(f).left /\ center(b).x <= bounds(f).right

\* C7: opposite sides. When A can flank F and a placed token B other than A can
\* flank F, with A's center directly left of F's bounds and B's directly right
\* (or A's above and B's below), A.isFlanking(F) returns true.
C7_OppositeSides ==
    (/\ ret.op = "isFlanking"
     /\ canFlank(A, F)
     /\ \E B \in placeables :
           /\ B # A
           /\ canFlank(B, F)
           /\ (LeftAndRight(A, B, F) \/ AboveAndBelow(A, B, F)))
    => ret.bool = TRUE

\* C7 case: the segment between the two centers misses the middle of F, so only
\* the opposite-sides test can accept the pair
C7_Witness ==
    /\ ret.op = "isFlanking"
    /\ ret.bool = TRUE
    /\ \E B \in placeables :
          /\ B # A
          /\ canFlank(B, F)
          /\ LeftAndRight(A, B, F)
          /\ ~areOnOppositeCorners(A, B, F)
    /\ \A B \in placeables : ~areOnOppositeCorners(A, B, F)

\* C8: flanking is mutual. If A.isFlanking(F) is true because of a buddy B and A
\* is itself among the placeables, then B.isFlanking(F) is true as well.
C8_Mutual ==
    (ret.op = "isFlanking" /\ ret.bool = TRUE /\ A \in placeables)
    => \A B \in placeables :
          (B # A /\ canFlank(B, F) /\ isAFlankingArrangement(A, B, F))
          => isFlanking(B, F)

\* C8 case: A flanks F with the buddy t1, which precedes A among the placeables
C8_Witness ==
    /\ ret.op = "isFlanking"
    /\ ret.bool = TRUE
    /\ A = "t2"
    /\ A \in placeables
    /\ canFlank("t1", F)
    /\ isAFlankingArrangement(A, "t1", F)
    /\ "t1" \in placeables

(***************************************************************************)
(* updateSource: the light data handed to the host's updateSource.         *)
(***************************************************************************)
Lights == (0 - MaxLight)..MaxLight

ActorTypes == {NoActor, "character", "npc"}

\* updateSource leaving data.light.dim at 0
updateSource_dimNotRestored(type, vision, data) ==
    IF type = "npc" \/ ~vision
    THEN [inner |-> data, after |-> data]
    ELSE LET original == [dim |-> data.dim, bright |-> data.bright]
             d1 == [data EXCEPT !.bright = Max(original.dim, original.bright)]
             d2 == [d1 EXCEPT !.dim = 0]
             d3 == [d2 EXCEPT !.bright = original.bright]
         IN  [inner |-> d2, after |-> d3]

\* the light data seen by super.updateSource (inner) and left behind (after)
updateSource(type, vision, data) ==
    IF type = "npc" \/ ~vision
    THEN [inner |-> data, after |-> data]
    ELSE LET original == [dim |-> data.dim, bright |-> data.bright]
             d1 == [data EXCEPT !.bright = Max(original.dim, original.bright)]
             d2 == [d1 EXCEPT !.dim = 0]
             d3 == [d2 EXCEPT !.bright = original.bright]
             d4 == [d3 EXCEPT !.dim = original.dim]
         IN  [inner |-> d2, after |-> d4]

UpdateSource ==
    LET vision == sight.hasLowLightVision \/ sight.hasDarkvision
        r == updateSource(light.type, vision, light.data)
    IN  /\ light' = [light EXCEPT !.data = r.after]
        /\ upd' = [called |-> TRUE, type |-> light.type, vision |-> vision,
                   before |-> light.data, inner |-> r.inner, after |-> r.after]
        /\ UNCHANGED <<sight, flankVars, drawVars>>

\* the token's light is edited
SetLight ==
    /\ \E dim \in Lights, bright \in Lights :
          light' = [light EXCEPT !.data = [dim |-> dim, bright |-> bright]]
    /\ UNCHANGED <<sight, upd, flankVars, drawVars>>

\* the token is given another actor, or none
SetActor ==
    /\ \E type \in ActorTypes : light' = [light EXCEPT !.type = type]
    /\ UNCHANGED <<sight, upd, flankVars, drawVars>>

\* the controlled tokens change, and with them the vision of the canvas
SetSight ==
    /\ sight' \in [hasLowLightVision : BOOLEAN, hasDarkvision : BOOLEAN]
    /\ UNCHANGED <<light, upd, flankVars, drawVars>>

InitStill ==
    /\ canvas \in {c \in Canvases : ~c.dimensions}
    /\ tokens = [t \in {"t1"} |-> Placed(0, 0, 1, MissingActor, canvas)]
    /\ placeables = {}
    /\ ret = NoCall

InitSource == InitStill /\ InitLight /\ InitDraw

NextSource == UpdateSource \/ SetLight \/ SetActor \/ SetSight

SpecSource == InitSource /\ [][NextSource]_vars

\* C9: updateSource leaves data.light as it found it; the host's updateSource
\* sees bright = max(dim, bright) and dim = 0 only for a token that is not an NPC
\* while the canvas has low-light vision or darkvision, and the data as it is otherwise.
C9_LightRestored ==
    upd.called =>
        /\ upd.after = upd.before
        /\ upd.inner = IF upd.type # "npc" /\ upd.vision
                       THEN [dim |-> 0, bright |-> Max(upd.before.dim, upd.before.bright)]
                       ELSE upd.before

\* C9 case: a dim light wider than the bright one is substituted and restored
C9_Witness ==
    /\ upd.called
    /\ upd.before.dim > upd.before.bright
    /\ upd.before.bright > 0
    /\ upd.inner # upd.before
    /\ light.data = upd.before

(***************************************************************************)
(* draw() and redraw(): async calls that suspend at each await.  A         *)
(* continuation runs from the microtask queue, oldest first, up to its     *)
(* next await; the host finishes a draw between tasks.                     *)
(***************************************************************************)
Awaiting(fr, p) == SelectSeq(fr, LAMBDA f : f.awaits = p)

NotAwaiting(fr, p) == SelectSeq(fr, LAMBDA f : f.awaits # p)

\* `await p` by frame f: queued at once when p is settled, else parked on p
Await(f, fr, mt) ==
    IF f.awaits \in settled
    THEN [frames |-> fr, microtasks |-> Append(mt, f)]
    ELSE [frames |-> Append(fr, f), microtasks |-> mt]

\* the host calls draw(): drawLock = super.draw(); await this.drawLock
CallDraw ==
    /\ drawLock = NoPromise
    /\ microtasks = <<>>
    /\ LET p == nextPromise
           q == nextPromise + 1
       IN  /\ hostDraws' = hostDraws \cup {p}
           /\ drawLock' = p
           /\ frames' = Append(frames, [kind |-> "draw", awaits |-> p, own |-> q])
           /\ nextPromise' = nextPromise + 2
    /\ UNCHANGED <<settled, microtasks, redrawCalls, probe, flankVars, lightVars>>

\* redraw() is called: await this.drawLock
CallRedraw ==
    /\ drawLock # NoPromise
    /\ redrawCalls < MaxRedraws
    /\ microtasks = <<>>
    /\ LET r == Await([kind |-> "redraw", awaits |-> drawLock, own |-> NoPromise],
                      frames, microtasks)
       IN  frames' = r.frames /\ microtasks' = r.microtasks
    /\ redrawCalls' = redrawCalls + 1
    /\ UNCHANGED <<drawLock, settled, hostDraws, nextPromise, probe, flankVars, lightVars>>

\* the host finishes a draw: the promise of super.draw() resolves
HostDrawFinish ==
    /\ microtasks = <<>>
    /\ \E p \in hostDraws :
          /\ hostDraws' = hostDraws \ {p}
          /\ settled' = settled \cup {p}
          /\ microtasks' = microtasks \o Awaiting(frames, p)
          /\ frames' = NotAwaiting(frames, p)
    /\ UNCHANGED <<drawLock, nextPromise, redrawCalls, probe, flankVars, lightVars>>

\* draw() resumes after `await this.drawLock` and returns this
DrawReturns ==
    /\ microtasks # <<>>
    /\ Head(microtasks).kind = "draw"
    /\ LET q == Head(microtasks).own
       IN  /\ settled' = settled \cup {q}
           /\ microtasks' = Tail(microtasks) \o Awaiting(frames, q)
           /\ frames' = NotAwaiting(frames, q)
    /\ UNCHANGED <<drawLock, hostDraws, nextPromise, redrawCalls, probe, flankVars, lightVars>>

\* redraw() resumes after `await this.drawLock` and finds the icon not fully
\* loaded, or nothing changed (or a vehicle): it returns
RedrawReturns ==
    /\ microtasks # <<>>
    /\ Head(microtasks).kind = "redraw"
    /\ probe' = [seen |-> TRUE, drawing |-> hostDraws # {}]
    /\ microtasks' = Tail(microtasks)
    /\ UNCHANGED <<drawLock, settled, hostDraws, frames, nextPromise, redrawCalls,
                   flankVars, lightVars>>

\* redraw() resumes and finds the size, scale or image changed:
\* this.drawLock = this.draw(); await this.drawLock
RedrawDraws ==
    /\ microtasks # <<>>
    /\ Head(microtasks).kind = "redraw"
    /\ probe' = [seen |-> TRUE, drawing |-> hostDraws # {}]
    /\ LET p == nextPromise
           q == nextPromise + 1
       IN  /\ hostDraws' = hostDraws \cup {p}
           /\ drawLock' = q
           /\ frames' = frames \o << [kind |-> "draw", awaits |-> p, own |-> q],
                                     [kind |-> "visible", awaits |-> q, own |-> NoPromise] >>
           /\ nextPromise' = nextPromise + 2
    /\ microtasks' = Tail(microtasks)
    /\ UNCHANGED <<settled, redrawCalls, flankVars, lightVars>>

\* redraw() resumes after the draw it started: this.visible = visible
RedrawRestoresVisible ==
    /\ microtasks # <<>>
    /\ Head(microtasks).kind = "visible"
    /\ microtasks' = Tail(microtasks)
    /\ UNCHANGED <<drawLock, settled, hostDraws, frames, nextPromise, redrawCalls, probe,
                   flankVars, lightVars>>

InitLock == InitStill /\ InitLight /\ InitDraw

NextLock ==
    \/ CallDraw
    \/ CallRedraw
    \/ HostDrawFinish
    \/ DrawReturns
    \/ RedrawReturns
    \/ RedrawDraws
    \/ RedrawRestoresVisible

SpecLock == InitLock /\ [][NextLock]_vars

\* C10: the draw lock serializes the draws of a token: no redraw inspects the
\* icon while a draw is in progress, and at most one draw is in progress.
C10_DrawsSerialized ==
    /\ ~probe.drawing
    /\ Cardinality(hostDraws) <= 1

====
